---- MODULE Spec2Model ----
(***************************************************************************)
(* A model of pepspy: the Node class (src/src/pepspy/node.py) with its     *)
(* constructor, update_tensor, assign_shape, contract and contract_self,   *)
(* and the tensor containers PEPS (src/src/pepspy/peps.py) and Network     *)
(* (src/src/pepspy/network.py).                                            *)
(*                                                                         *)
(* Python values are modelled as follows.                                  *)
(*   - an optional argument is a sequence: <<>> is None, <<v>> is v;       *)
(*   - a tuple is a sequence;  an axis index keeps Python's 0-based value; *)
(*   - an ndarray is [shape, data], data in row-major (C) order;           *)
(*   - a raised exception is an outcome [exc, msg]; "ok" is a return.      *)
(***************************************************************************)
EXTENDS Integers, Sequences, FiniteSets, TLC

\* ------------------------------------------------------------------ bounds

\* Nodes the caller keeps a reference to.
MaxNodes == 2
\* Largest rank of a tensor handed to the constructor or to update_tensor.
MaxRank == 3
\* Largest dimension of an axis of such a tensor.
MaxDim == 2
\* Longest list of tensors handed to a container.
MaxLen == 3

\* --------------------------------------------------------- Python values

None == <<>>
Some(v) == <<v>>
Val(o) == o[1]

\* bool(x) of an optional int: None and 0 are falsy.
TruthyInt(o) == o # <<>> /\ o[1] # 0
\* bool(x) of an optional tuple, string or dict: None and the empty one are falsy.
TruthySeq(o) == o # <<>> /\ o[1] # <<>>
TruthyStr(o) == o # <<>> /\ o[1] # ""
TruthySet(o) == o # <<>> /\ o[1] # {}

\* In range for t[i] on a Python tuple of length n.
InRange(i, n) == -n <= i /\ i < n
\* t[i] on a Python tuple (a negative index counts from the end).
PyAt(t, i) == IF i < 0 THEN t[Len(t) + i + 1] ELSE t[i + 1]

Ok == [exc |-> "ok", msg |-> ""]
Raise(e, m) == [exc |-> e, msg |-> m]

\* ---------------------------------------------------------------- tensors

RECURSIVE Prod(_)
Prod(s) == IF s = <<>> THEN 1 ELSE Head(s) * Prod(Tail(s))

RECURSIVE SumTo(_, _)
\* f(0) + ... + f(n-1) for a function f on 0..n-1.
SumTo(f, n) == IF n = 0 THEN 0 ELSE f[n - 1] + SumTo(f, n - 1)

\* The multi-index of flat position k (0-based) in row-major order.
Unravel(k, shape) ==
    [i \in 1..Len(shape) |->
        (k \div Prod(SubSeq(shape, i + 1, Len(shape)))) % shape[i]]

\* The flat position (0-based) of a multi-index in row-major order.
Ravel(idx, shape) ==
    SumTo([i \in 0..(Len(shape) - 1) |->
              idx[i + 1] * Prod(SubSeq(shape, i + 2, Len(shape)))],
          Len(shape))

At(t, idx) == t.data[Ravel(idx, t.shape) + 1]

Tensor(shape, data) == [shape |-> shape, data |-> data]

\* numpy.eye(d)
Eye(d) ==
    Tensor(<<d, d>>,
           [k \in 1..(d * d) |->
               IF (k - 1) \div d = (k - 1) % d THEN 1 ELSE 0])

\* numpy.asarray([x]) for a rank-0 array x
WrapScalar(x) == Tensor(<<1>>, x.data)

\* The positions of s (1-based) whose value is not in the set skip, in order.
RECURSIVE Notin(_, _, _)
Notin(k, n, skip) ==
    IF k >= n THEN <<>>
    ELSE (IF k \in skip THEN <<>> ELSE <<k>>) \o Notin(k + 1, n, skip)

Range(s) == {s[i] : i \in DOMAIN s}
PosOf(s, v) == CHOOSE i \in DOMAIN s : s[i] = v
NoDup(s) == \A i, j \in DOMAIN s : s[i] = s[j] => i = j

\* ------------------------------------------------------- numpy.tensordot

\* An element of the axes argument: an int, a non-integer number, or a list
\* of ints.
IntE(i) == [k |-> "int", i |-> i, s |-> <<>>]
FloatE == [k |-> "float", i |-> 0, s |-> <<>>]
SeqE(s) == [k |-> "seq", i |-> 0, s |-> s]

\* "na = len(axes_a); axes_a = list(axes_a)", and on TypeError "[axes_a]".
AxList(e) == IF e.k = "seq" THEN [j \in 1..Len(e.s) |-> IntE(e.s[j])] ELSE <<e>>

\* The loop that compares the paired dimensions, pair by pair; indexing a
\* shape with a non-integer is a TypeError, out of range an IndexError.
RECURSIVE AxesCheck(_, _, _, _, _)
AxesCheck(k, as, bs, axes_a, axes_b) ==
    IF k > Len(axes_a) THEN "equal"
    ELSE IF axes_a[k].k # "int" THEN "TypeError"
    ELSE IF ~InRange(axes_a[k].i, Len(as)) THEN "IndexError"
    ELSE IF axes_b[k].k # "int" THEN "TypeError"
    ELSE IF ~InRange(axes_b[k].i, Len(bs)) THEN "IndexError"
    ELSE IF PyAt(as, axes_a[k].i) # PyAt(bs, axes_b[k].i) THEN "mismatch"
    ELSE AxesCheck(k + 1, as, bs, axes_a, axes_b)

\* "if axes_a[k] < 0: axes_a[k] += nda"
NormAxes(axes, nd) ==
    [j \in 1..Len(axes) |-> IF axes[j].i < 0 THEN axes[j].i + nd ELSE axes[j].i]

\* The contraction itself (transpose, reshape, dot, reshape), entry by entry:
\* the axes A of a are summed against the axes B of b; the result's axes are
\* a's remaining axes, then b's, each in its original order.
TensorDotValue(a, b, A, B) ==
    LET na == Notin(0, Len(a.shape), Range(A))
        nb == Notin(0, Len(b.shape), Range(B))
        olda == [p \in 1..Len(na) |-> a.shape[na[p] + 1]]
        oldb == [p \in 1..Len(nb) |-> b.shape[nb[p] + 1]]
        rshape == olda \o oldb
        sshape == [q \in 1..Len(A) |-> a.shape[A[q] + 1]]
        Entry(r) ==
            LET ridx == Unravel(r - 1, rshape)
                Term(s) ==
                    LET sidx == Unravel(s, sshape)
                        ia == [x \in 1..Len(a.shape) |->
                                 IF (x - 1) \in Range(A)
                                 THEN sidx[PosOf(A, x - 1)]
                                 ELSE ridx[PosOf(na, x - 1)]]
                        ib == [x \in 1..Len(b.shape) |->
                                 IF (x - 1) \in Range(B)
                                 THEN sidx[PosOf(B, x - 1)]
                                 ELSE ridx[Len(olda) + PosOf(nb, x - 1)]]
                    IN  At(a, ia) * At(b, ib)
            IN  SumTo([s \in 0..(Prod(sshape) - 1) |-> Term(s)], Prod(sshape))
    IN  Tensor(rshape, [r \in 1..Prod(rshape) |-> Entry(r)])

NoTensor == Tensor(<<>>, <<0>>)

\* numpy.tensordot(a, b, axes = ax): [out, tensor].
tensordot(a, b, ax) ==
    IF Len(ax) # 2
    THEN [out |-> Raise("ValueError", "axes do not unpack to two values"),
          tensor |-> NoTensor]
    ELSE
    LET axes_a == AxList(ax[1])
        axes_b == AxList(ax[2])
        chk == IF Len(axes_a) # Len(axes_b) THEN "mismatch"
               ELSE AxesCheck(1, a.shape, b.shape, axes_a, axes_b)
    IN  CASE chk = "TypeError" ->
               [out |-> Raise("TypeError", "tuple indices must be integers"),
                tensor |-> NoTensor]
          [] chk = "IndexError" ->
               [out |-> Raise("IndexError", "tuple index out of range"),
                tensor |-> NoTensor]
          [] chk = "mismatch" ->
               [out |-> Raise("ValueError", "shape-mismatch for sum"),
                tensor |-> NoTensor]
          [] OTHER ->
               LET A == NormAxes(axes_a, Len(a.shape))
                   B == NormAxes(axes_b, Len(b.shape))
               IN  IF ~NoDup(A) \/ ~NoDup(B)
                   THEN [out |-> Raise("ValueError", "axes don't match array"),
                         tensor |-> NoTensor]
                   ELSE [out |-> Ok, tensor |-> TensorDotValue(a, b, A, B)]

\* -------------------------------------------------------------------- Node

\* The logical error kinds, by the message the code raises them with.
ShapeMismatch == Raise("ValueError", "Specified shape does not match tensor")
InvalidOperand == Raise("ValueError", "other_node must be an instance of Node")
AxisCountError == Raise("ValueError", "Axis must be of dimension 2")
AxisTypeError == Raise("ValueError", "Indices must be integers")
SelfAxisMismatch ==
    Raise("ValueError", "Indices to contract must have the same dimension")
PairAxisMismatch == Raise("ValueError", "shape-mismatch for sum")
IsInvalidAxisCount(o) == o \in {AxisCountError, AxisTypeError}

\* An object whose attributes are not assigned yet.
NoNode ==
    [name |-> "", tensor |-> NoTensor, shape |-> <<>>, spin_dim |-> None,
     bond_dim |-> None, connected_nodes |-> {}]

\* Node.assign_shape(self, shape, spin_dim, bond_dim): [out, self].
assign_shape(self, shape, spin_dim, bond_dim) ==
    LET s1 == [self EXCEPT !.shape = shape]
    IN  IF Len(shape) < 2
        THEN IF Len(shape) = 0
             THEN [out |-> Raise("IndexError", "tuple index out of range"),
                   self |-> s1]
             ELSE [out |-> Ok,
                   self |-> [s1 EXCEPT !.spin_dim = Some(shape[1]),
                                       !.bond_dim = bond_dim]]
        ELSE [out |-> Ok,
              self |-> [s1 EXCEPT
                  !.spin_dim = IF TruthyInt(spin_dim) THEN spin_dim
                               ELSE Some(shape[1]),
                  !.bond_dim = IF TruthyInt(bond_dim) THEN bond_dim
                               ELSE Some(shape[2])]]

\* Node.__init__(self, name, tensor, shape, spin_dim, bond_dim,
\* connected_nodes): [out, self]; no Node comes of a constructor that raises.
Node_init(name, tensor, shape, spin_dim, bond_dim, connected_nodes) ==
    LET s1 == [NoNode EXCEPT !.name = name, !.tensor = tensor]
    IN  IF TruthySeq(shape) /\ tensor.shape # Val(shape)
        THEN [out |-> ShapeMismatch, self |-> NoNode]
        ELSE LET s2 == [s1 EXCEPT !.connected_nodes =
                            IF TruthySet(connected_nodes)
                            THEN Val(connected_nodes) ELSE {}]
                 r == assign_shape(s2, tensor.shape, spin_dim, bond_dim)
             IN  IF r.out = Ok THEN r ELSE [out |-> r.out, self |-> NoNode]

\* update_tensor without the call of assign_shape.
update_tensor_stale(self, tensor) ==
    [out |-> Ok, self |-> [self EXCEPT !.tensor = tensor]]

\* Node.update_tensor(self, tensor): [out, self].
update_tensor(self, tensor) ==
    assign_shape([self EXCEPT !.tensor = tensor], tensor.shape,
                 self.spin_dim, self.bond_dim)

\* check_axes without the comparison of the two dimensions.
check_axes_nodim(self, ax) ==
    IF Len(ax) # 2 THEN AxisCountError
    ELSE IF ax[1].k # "int" \/ ax[2].k # "int" THEN AxisTypeError
    ELSE IF ~InRange(ax[1].i, Len(self.shape))
            \/ ~InRange(ax[2].i, Len(self.shape))
    THEN Raise("IndexError", "tuple index out of range")
    ELSE Ok

\* The checks contract_self makes of ax before it contracts: the outcome.
check_axes(self, ax) ==
    IF Len(ax) # 2 THEN AxisCountError
    ELSE IF ax[1].k # "int" \/ ax[2].k # "int" THEN AxisTypeError
    ELSE IF ~InRange(ax[1].i, Len(self.shape))
            \/ ~InRange(ax[2].i, Len(self.shape))
    THEN Raise("IndexError", "tuple index out of range")
    ELSE IF PyAt(self.shape, ax[1].i) # PyAt(self.shape, ax[2].i)
    THEN SelfAxisMismatch
    ELSE Ok

\* Node.contract_self(self, ax, new_name): [out, self (the Node returned)].
contract_self(self, ax, new_name) ==
    IF check_axes(self, ax) # Ok
    THEN [out |-> check_axes(self, ax), self |-> NoNode]
    ELSE
    LET nn == IF TruthyStr(new_name) THEN Val(new_name) ELSE self.name
        dimension == PyAt(self.shape, ax[1].i)
        td == tensordot(self.tensor, Eye(dimension),
                        <<SeqE(<<ax[1].i, ax[2].i>>), SeqE(<<0, 1>>)>>)
    IN  IF td.out # Ok THEN [out |-> td.out, self |-> NoNode]
        ELSE IF td.tensor.shape = <<>>
        THEN Node_init(nn, WrapScalar(td.tensor), None, None, None,
                       Some(self.connected_nodes))
        ELSE Node_init(nn, td.tensor, None, None, None,
                       Some(self.connected_nodes))

\* The other_node argument: absent (None), a Node of the heap, or a value
\* that is no Node (an int here: 0 is falsy, any other is truthy).
NoOther == [kind |-> "none", id |-> 0, v |-> 0]
NodeRef(i) == [kind |-> "node", id |-> i, v |-> 0]
IntVal(v) == [kind |-> "int", id |-> 0, v |-> v]
\* bool(other_node): Node defines neither __bool__ nor __len__.
TruthyOther(o) == o.kind = "node" \/ (o.kind = "int" /\ o.v # 0)

\* Node.contract(self, ax, other_node, new_name) with self = heap[id]:
\* [out, self (the Node returned), path (the branch that ran)].
contract(heap, id, ax, other_node, new_name) ==
    LET self == heap[id]
    IN  IF TruthyOther(other_node) /\ other_node.kind # "node"
        THEN [out |-> InvalidOperand, self |-> NoNode, path |-> ""]
        ELSE
        LET nn == IF TruthyStr(new_name) THEN new_name ELSE Some(self.name)
        IN  IF ~TruthyOther(other_node) \/ other_node = NodeRef(id)
            THEN LET r == contract_self(self, ax, nn)
                 IN  [out |-> r.out, self |-> r.self, path |-> "self"]
            ELSE LET td == tensordot(self.tensor, heap[other_node.id].tensor, ax)
                     r == Node_init(Val(nn), td.tensor, None, None, None,
                                    Some(self.connected_nodes))
                 IN  IF td.out # Ok
                     THEN [out |-> td.out, self |-> NoNode, path |-> "pair"]
                     ELSE [out |-> r.out, self |-> r.self, path |-> "pair"]

\* -------------------------------------------------------------- containers

\* A PEPS.__init__ that loses the first tensor.
PEPS_init_tail(tensors) == IF tensors = <<>> THEN <<>> ELSE Tail(tensors)

\* PEPS.__init__(self, tensors): the tensors attribute.
PEPS_init(tensors) == tensors

\* Network.__init__(self, tensors): the tensors attribute.
Network_init(tensors) == tensors

\* ------------------------------------------------------------------ inputs

\* Every shape of rank 0..r with dimensions 1..d.
Shapes(r, d) == UNION {[1..n -> 1..d] : n \in 0..r}

\* numpy.arange(1, n + 1).reshape(shape) ** 2: the squares 1, 4, 9, ... in
\* row-major order (no two sums of distinct entries of a small tensor agree
\* by symmetry, as they would for 1, 2, 3, ...).
Squares(shape) == Tensor(shape, [k \in 1..Prod(shape) |-> k * k])

\* The input tensors: one of every shape, and the identity matrices.
Tensors ==
    {Squares(s) : s \in Shapes(MaxRank, MaxDim)} \cup {Eye(d) : d \in 1..MaxDim}
Matrices == {t \in Tensors : Len(t.shape) = 2}

\* The name of the k-th Node constructed (names should be unique).
NodeNames == <<"A", "B", "C", "D", "E", "F", "G", "H">>
NewNames == {None, Some(""), Some("Z")}

\* A connectivity mapping: peer name, then the axis pair.
Conn1 == {<<"X", 0, 1>>}
ConnArgs == {None, Some({}), Some(Conn1)}

\* A dimension hint that no input tensor has as a dimension.
Hint == MaxDim + 1
HintArgs == {None, Some(0), Some(Hint)}

\* The shape arguments tried with a tensor: none, the empty tuple, the
\* tensor's own shape, and that shape with its last dimension changed or an
\* axis added.
ShapeArgs(t) ==
    {None, Some(<<>>), Some(t.shape), Some(t.shape \o <<1>>)}
    \cup (IF t.shape = <<>> THEN {}
          ELSE {Some([t.shape EXCEPT ![Len(t.shape)] = @ + 1])})

\* Axis indices: -1 (the last axis), and 0..MaxRank (MaxRank is past the
\* end of every input tensor).
Idx == (-1)..MaxRank
IntPairs == {<<IntE(i), IntE(j)>> : i, j \in Idx}
\* Axes that are not two integers.
OddAxes == {<<>>, <<IntE(0)>>, <<IntE(0), IntE(1), IntE(0)>>,
            <<FloatE, IntE(0)>>, <<IntE(0), FloatE>>}
\* Two lists of axes: no pair, one pair, two pairs, and lists of different
\* lengths.
ListPairs ==
    {<<SeqE(<<>>), SeqE(<<>>)>>}
    \cup {<<SeqE(<<i>>), SeqE(<<j>>)>> : i, j \in 0..MaxRank}
    \cup {<<SeqE(<<i, j>>), SeqE(b)>> :
             i, j \in 0..MaxRank, b \in {<<0, 1>>, <<1, 0>>}}
    \cup {<<SeqE(<<i>>), SeqE(<<>>)>> : i \in 0..MaxRank}
    \cup {<<SeqE(<<>>), SeqE(<<j>>)>> : j \in 0..MaxRank}
    \cup {<<SeqE(<<0, 1>>), SeqE(<<0>>)>>}
AxArgs == IntPairs \cup OddAxes \cup ListPairs
\* A few axes for the runs that vary something else.
FewAxes == {<<IntE(0), IntE(1)>>, <<SeqE(<<0>>), SeqE(<<0>>)>>,
            <<SeqE(<<>>), SeqE(<<>>)>>}

OtherArgs(heap) ==
    {NoOther, IntVal(0), IntVal(7)} \cup {NodeRef(i) : i \in DOMAIN heap}
NodeOrNone(heap) == {NoOther} \cup {NodeRef(i) : i \in DOMAIN heap}

TensorLists == UNION {[1..n -> Matrices] : n \in 0..MaxLen}

\* ------------------------------------------------------------------- state

VARIABLES
    nodes,     \* the Nodes the caller holds, by identity (position)
    supplied,  \* history: per Node, whether spin_dim / bond_dim were passed
               \* to its constructor
    stores,    \* the containers (PEPS, Network) constructed
    last       \* the call that has just returned: its arguments, its
               \* outcome, what it returned

vars == <<nodes, supplied, stores, last>>

NoCall ==
    [op |-> "", recv |-> 0, tensor |-> NoTensor, shape |-> None,
     spin_dim |-> None, bond_dim |-> None, conn |-> None, name |-> None,
     ax |-> <<>>, other |-> NoOther, tensors |-> <<>>,
     out |-> Ok, ret |-> 0, retnode |-> NoNode, path |-> ""]

Init ==
    /\ nodes = <<>>
    /\ supplied = <<>>
    /\ stores = <<>>
    /\ last = NoCall

\* n = Node(name, tensor, shape, spin_dim, bond_dim, connected_nodes), while
\* the caller holds fewer than cap Nodes.
NodeCall(cap, t, shape, spin_dim, bond_dim, conn) ==
    /\ Len(nodes) < cap
    /\ LET name == NodeNames[Len(nodes) + 1]
           r == Node_init(name, t, shape, spin_dim, bond_dim, conn)
       IN  /\ nodes' = IF r.out = Ok THEN Append(nodes, r.self) ELSE nodes
           /\ supplied' =
                 IF r.out = Ok
                 THEN Append(supplied, [spin_dim |-> spin_dim # None,
                                        bond_dim |-> bond_dim # None])
                 ELSE supplied
           /\ last' = [NoCall EXCEPT
                 !.op = "Node", !.tensor = t, !.shape = shape,
                 !.spin_dim = spin_dim, !.bond_dim = bond_dim,
                 !.conn = conn, !.name = Some(name), !.out = r.out,
                 !.ret = IF r.out = Ok THEN Len(nodes) + 1 ELSE 0,
                 !.retnode = r.self]
    /\ UNCHANGED stores

\* A Node returned by a contraction: the caller keeps it while it has room.
Returned(call, r) ==
    LET keep == r.out = Ok /\ Len(nodes) < MaxNodes
    IN  /\ nodes' = IF keep THEN Append(nodes, r.self) ELSE nodes
        /\ supplied' = IF keep
                       THEN Append(supplied, [spin_dim |-> FALSE,
                                              bond_dim |-> FALSE])
                       ELSE supplied
        /\ last' = [call EXCEPT
              !.out = r.out, !.retnode = r.self,
              !.ret = IF keep THEN Len(nodes) + 1 ELSE 0]
        /\ UNCHANGED stores

\* nodes[id].contract(ax, other_node, new_name)
ContractCall(id, ax, other, new_name) ==
    LET r == contract(nodes, id, ax, other, new_name)
    IN  Returned([NoCall EXCEPT !.op = "contract", !.recv = id,
                      !.ax = ax, !.other = other, !.name = new_name,
                      !.path = r.path], r)

\* nodes[id].contract_self(ax, new_name)
ContractSelfCall(id, ax, new_name) ==
    LET r == contract_self(nodes[id], ax, new_name)
    IN  Returned([NoCall EXCEPT !.op = "contract_self", !.recv = id,
                      !.ax = ax, !.name = new_name, !.path = "self"], r)

\* Construction with the metadata left to its defaults.
Construct ==
    /\ last.op = ""
    /\ \E t \in Tensors : NodeCall(MaxNodes, t, None, None, None, None)

\* Construction with no metadata, or with both hints and a connectivity.
ConstructPlain ==
    /\ last.op = ""
    /\ \E t \in Tensors, m \in BOOLEAN :
           NodeCall(MaxNodes, t, None,
                    IF m THEN Some(Hint) ELSE None,
                    IF m THEN Some(Hint) ELSE None,
                    IF m THEN Some(Conn1) ELSE None)

\* Construction of one Node with every mix of shape, spin_dim, bond_dim and
\* connected_nodes.
ConstructAny ==
    /\ last.op = ""
    /\ \E t \in Tensors, sd \in HintArgs, bd \in HintArgs, c \in ConnArgs :
           \E sh \in ShapeArgs(t) : NodeCall(1, t, sh, sd, bd, c)

\* nodes[id].update_tensor(t)
UpdateTensor ==
    /\ last.op = ""
    /\ \E id \in DOMAIN nodes, t \in Tensors :
           /\ LET r == update_tensor(nodes[id], t)
              IN  /\ nodes' = [nodes EXCEPT ![id] = r.self]
                  /\ last' = [NoCall EXCEPT !.op = "update_tensor", !.recv = id,
                                            !.tensor = t, !.out = r.out]
           /\ UNCHANGED <<supplied, stores>>

\* Contractions over a few axes.
ContractFew ==
    /\ last.op = ""
    /\ \E id \in DOMAIN nodes, ax \in FewAxes, new_name \in {None, Some("Z")} :
           \E other \in NodeOrNone(nodes) : ContractCall(id, ax, other, new_name)

ContractSelfFew ==
    /\ last.op = ""
    /\ \E id \in DOMAIN nodes, ax \in FewAxes, new_name \in {None, Some("Z")} :
           ContractSelfCall(id, ax, new_name)

\* Contractions: every axes argument with a Node or nothing as other_node,
\* and every other_node and new_name with a few axes.
Contract ==
    /\ last.op = ""
    /\ \E id \in DOMAIN nodes, ax \in AxArgs, new_name \in NewNames :
           \E other \in OtherArgs(nodes) :
               /\ \/ ax \in FewAxes
                  \/ new_name = None /\ other \in NodeOrNone(nodes)
               /\ ContractCall(id, ax, other, new_name)

ContractSelf ==
    /\ last.op = ""
    /\ \E id \in DOMAIN nodes, ax \in AxArgs, new_name \in NewNames :
           /\ ax \in FewAxes \/ new_name = None
           /\ ContractSelfCall(id, ax, new_name)

\* PEPS(tensors)
PEPSNew ==
    /\ last.op = ""
    /\ \E ts \in TensorLists :
           /\ stores = <<>>
           /\ stores' = <<[cls |-> "PEPS", tensors |-> PEPS_init(ts)]>>
           /\ last' = [NoCall EXCEPT !.op = "PEPS", !.tensors = ts, !.ret = 1]
           /\ UNCHANGED <<nodes, supplied>>

\* Network(tensors)
NetworkNew ==
    /\ last.op = ""
    /\ \E ts \in TensorLists :
           /\ stores = <<>>
           /\ stores' = <<[cls |-> "Network", tensors |-> Network_init(ts)]>>
           /\ last' = [NoCall EXCEPT !.op = "Network", !.tensors = ts, !.ret = 1]
           /\ UNCHANGED <<nodes, supplied>>

\* The caller has taken the result of the call; the next call can start.
Resume ==
    /\ last.op # ""
    /\ last' = NoCall
    /\ UNCHANGED <<nodes, supplied, stores>>

\* The life of Nodes: construction, tensor replacement, contraction.
Next == Construct \/ UpdateTensor \/ ContractFew \/ ContractSelfFew \/ Resume
Spec == Init /\ [][Next]_vars

\* One Node, constructed with every mix of metadata, its tensor replaced.
NextCtor == ConstructAny \/ UpdateTensor \/ Resume
SpecCtor == Init /\ [][NextCtor]_vars

\* Contractions of constructed Nodes, over every axes argument.
NextContract == ConstructPlain \/ Contract \/ ContractSelf \/ Resume
SpecContract == Init /\ [][NextContract]_vars

\* The containers.
NextStore == PEPSNew \/ NetworkNew \/ Resume
SpecStore == Init /\ [][NextStore]_vars

\* ------------------------------------------------------------ the claims

IsContraction == last.op \in {"contract", "contract_self"}
\* The receiver and the other operand of the last contraction (a
\* contraction assigns no attribute of either).
Recv == nodes[last.recv]
Other == nodes[last.other.id]
Rank(n) == Len(n.tensor.shape)
NoNodeReturned == last.ret = 0 /\ last.retnode = NoNode

\* The two axis lists of a pairwise contraction name axes of the operands.
IsInt(e) == e.k = "int"
ListsNameAxes ==
    /\ \A e \in Range(AxList(last.ax[1])) : IsInt(e) /\ InRange(e.i, Rank(Recv))
    /\ \A e \in Range(AxList(last.ax[2])) : IsInt(e) /\ InRange(e.i, Rank(Other))
\* axes is two valid integer positions of the receiver's tensor.
TwoValidPositions ==
    /\ Len(last.ax) = 2
    /\ \A e \in Range(last.ax) : IsInt(e) /\ InRange(e.i, Rank(Recv))

\* C1. Shape invariant: every Node the caller holds, and every Node a call
\* returned, has shape equal to the actual shape of its tensor, after any
\* sequence of constructions, update_tensor calls and contractions (also
\* after a call that raised).
C1_ShapeInvariant ==
    /\ \A id \in DOMAIN nodes : nodes[id].shape = nodes[id].tensor.shape
    /\ last.retnode.shape = last.retnode.tensor.shape

\* A Node returned by a contraction of Node 1 (it has Node 1's name) has had
\* its tensor replaced by one of another shape, of rank 2 or more.
C1_Witness ==
    /\ last.op = "update_tensor" /\ last.recv = 2 /\ last.out = Ok
    /\ Len(nodes) = 2 /\ nodes[2].name = nodes[1].name
    /\ Len(last.tensor.shape) >= 2
    /\ nodes[2].tensor = last.tensor

\* C2. update_tensor re-derives the dimensions from the new tensor: after
\* update_tensor(t) with t of rank >= 2 the Node has shape t.shape, and
\* spin_dim = t.shape[0], bond_dim = t.shape[1] unless that hint was passed
\* to the constructor.
C2_UpdateRederives ==
    (last.op = "update_tensor" /\ Len(last.tensor.shape) >= 2) =>
        /\ Recv.shape = last.tensor.shape
        /\ ~supplied[last.recv].spin_dim =>
               Recv.spin_dim = Some(last.tensor.shape[1])
        /\ ~supplied[last.recv].bond_dim =>
               Recv.bond_dim = Some(last.tensor.shape[2])

\* C3. Construction from a tensor of rank >= 1 raises ShapeMismatch and
\* yields no Node for every supplied shape that differs from the tensor's
\* shape, and succeeds when the shape is the tensor's or is not supplied.
C3_ShapeChecked ==
    (last.op = "Node" /\ Len(last.tensor.shape) >= 1) =>
        IF last.shape # None /\ Val(last.shape) # last.tensor.shape
        THEN last.out = ShapeMismatch /\ NoNodeReturned
        ELSE last.out = Ok /\ last.ret # 0

\* C4. contract runs contract_self exactly when other_node is absent or is
\* the receiver, and raises InvalidOperand for every other_node that is
\* given and is no Node.
C4_Dispatch ==
    last.op = "contract" =>
        /\ last.path = "self" <=>
               (last.other = NoOther \/ last.other = NodeRef(last.recv))
        /\ last.other.kind \notin {"none", "node"} =>
               last.out = InvalidOperand /\ NoNodeReturned

C5_SelfCase ==
    /\ IsContraction /\ last.path = "self" /\ TwoValidPositions
    /\ PyAt(Recv.tensor.shape, last.ax[1].i)
           # PyAt(Recv.tensor.shape, last.ax[2].i)
    /\ last.out = SelfAxisMismatch

\* A pairwise contraction over lists of different lengths has raised.
C5_LengthCase ==
    /\ last.op = "contract" /\ last.path = "pair" /\ Len(last.ax) = 2
    /\ Len(AxList(last.ax[1])) # Len(AxList(last.ax[2]))
    /\ last.out = PairAxisMismatch

\* C6. contract_self raises InvalidAxisCount and returns no Node whenever
\* axes is not two valid integer positions of the receiver's tensor, and
\* raises it in no other case.
C6_AxisCount ==
    (IsContraction /\ last.path = "self") =>
        IF TwoValidPositions
        THEN ~IsInvalidAxisCount(last.out)
        ELSE IsInvalidAxisCount(last.out) /\ NoNodeReturned

\* The sum of the diagonal of a matrix.
Trace(t) == SumTo([i \in 0..(t.shape[1] - 1) |-> At(t, <<i, i>>)], t.shape[1])
\* A self-contraction over both axes of a matrix of shape (d, d).
SumsAwaySelf ==
    /\ IsContraction /\ last.path = "self" /\ TwoValidPositions
    /\ Rank(Recv) = 2 /\ Recv.tensor.shape[1] = Recv.tensor.shape[2]
    /\ NoDup(NormAxes(last.ax, 2))
\* A pairwise contraction that pairs every axis of both operands.
SumsAwayPair ==
    /\ last.op = "contract" /\ last.path = "pair" /\ Len(last.ax) = 2
    /\ LET la == AxList(last.ax[1])
           lb == AxList(last.ax[2])
       IN  /\ Len(la) = Len(lb) /\ ListsNameAxes
           /\ Len(la) = Rank(Recv) /\ Len(lb) = Rank(Other)
           /\ NoDup(NormAxes(la, Rank(Recv)))
           /\ NoDup(NormAxes(lb, Rank(Other)))
           /\ \A k \in DOMAIN la :
                  PyAt(Recv.tensor.shape, la[k].i)
                      = PyAt(Other.tensor.shape, lb[k].i)

\* C7. A contraction that sums away every axis succeeds and returns a Node
\* whose tensor has shape (1,), holding for a self-contraction the sum of
\* the diagonal; no contraction returns a Node whose shape is empty.
C7_RankZero ==
    /\ SumsAwaySelf =>
           /\ last.out = Ok
           /\ last.retnode.tensor = Tensor(<<1>>, <<Trace(Recv.tensor)>>)
    /\ SumsAwayPair =>
           /\ last.out = Ok
           /\ last.retnode.tensor.shape = <<1>>
    /\ (IsContraction /\ last.out = Ok) => last.retnode.tensor.shape # <<>>

\* C8. A contraction, whether it returns or raises, leaves every Node the
\* caller holds as it was; one that returns, returns a new Node whose name
\* is new_name if given, else the receiver's name, and whose
\* connected_nodes is the receiver's.
C8_NonMutating ==
    [][(last'.op \in {"contract", "contract_self"}) =>
          /\ \A id \in DOMAIN nodes : nodes'[id] = nodes[id]
          /\ last'.out = Ok =>
                 /\ last'.retnode.name =
                        IF last'.name # None THEN Val(last'.name)
                        ELSE nodes[last'.recv].name
                 /\ last'.retnode.connected_nodes =
                        nodes[last'.recv].connected_nodes
                 /\ last'.ret # 0 =>
                        /\ last'.ret \notin DOMAIN nodes
                        /\ nodes'[last'.ret] = last'.retnode]_vars

\* What does hold of the result of a contraction: as C8, with an empty
\* new_name taken as none given.
NonMutatingTruthyName ==
    [][(last'.op \in {"contract", "contract_self"}) =>
          /\ \A id \in DOMAIN nodes : nodes'[id] = nodes[id]
          /\ last'.out = Ok =>
                 /\ last'.retnode.name =
                        IF TruthyStr(last'.name) THEN Val(last'.name)
                        ELSE nodes[last'.recv].name
                 /\ last'.retnode.connected_nodes =
                        nodes[last'.recv].connected_nodes
                 /\ last'.ret # 0 =>
                        /\ last'.ret \notin DOMAIN nodes
                        /\ nodes'[last'.ret] = last'.retnode]_vars

\* C9. Metadata round trip: the Node a constructor returns, given a shape
\* that is the tensor's or none, reads back the supplied shape, the
\* supplied spin_dim and the supplied bond_dim; a value
\* that was not supplied is its default, spin_dim = shape[0] and, for rank
\* >= 2, bond_dim = shape[1].
C9_RoundTrip ==
    (/\ last.op = "Node" /\ last.out = Ok
     /\ last.shape # None => Val(last.shape) = last.tensor.shape) =>
        LET n == last.retnode
        IN  /\ last.shape # None => n.shape = Val(last.shape)
            /\ n.spin_dim = IF last.spin_dim # None THEN last.spin_dim
                            ELSE Some(n.shape[1])
            /\ last.bond_dim # None => n.bond_dim = last.bond_dim
            /\ (last.bond_dim = None /\ Len(n.shape) >= 2) =>
                   n.bond_dim = Some(n.shape[2])

\* C10. A container constructed from a list of tensors holds that list: as
\* many tensors, and at every position the tensor supplied for it.
C10_Stored ==
    last.op \in {"PEPS", "Network"} =>
        LET held == stores[last.ret].tensors
        IN  /\ Len(held) = Len(last.tensors)
            /\ \A i \in 1..Len(last.tensors) : held[i] = last.tensors[i]

\* A PEPS has been constructed from three tensors, not all the same.
C10_Witness ==
    /\ last.op = "PEPS" /\ stores[1].cls = "PEPS"
    /\ Len(last.tensors) = 3
    /\ last.tensors[1] # last.tensors[2]
    /\ stores[1].tensors[3] = last.tensors[3]

====
